---------------------------- MODULE Spec2Model ----------------------------
(***************************************************************************)
(* Model of optimize.py: the 7z collection optimiser.                      *)
(*                                                                         *)
(* Strings are sequences of tokens.  A token is a piece of text that no    *)
(* operation of the program cuts: every digit, every separator ("/", ".")  *)
(* and every unit suffix is a token of its own, so int(), endswith(),      *)
(* startswith(), split('.'), basename() and join() are computed on the     *)
(* tokens exactly as Python computes them on the characters.               *)
(*                                                                         *)
(* Python exceptions are values: the name of the exception class, or       *)
(* NoErr when the call returns.                                            *)
(***************************************************************************)
EXTENDS Integers, Sequences, FiniteSets, TLC

NoErr == "none"

(* except RuntimeError: only RuntimeError is a RuntimeError among the      *)
(* classes the program can raise (ValueError, ZeroDivisionError,           *)
(* IndexError, AttributeError and OSError derive from Exception directly   *)
(* or from ArithmeticError / LookupError).                                 *)
IsRuntimeError(e) == e = "RuntimeError"

(***************************************************************************)
(* Text helpers                                                            *)
(***************************************************************************)
Digits == <<"0", "1", "2", "3", "4", "5", "6", "7", "8", "9">>

IsDigit(c) == \E i \in 1..10 : Digits[i] = c

DigitVal(c) == (CHOOSE i \in 1..10 : Digits[i] = c) - 1

AllDigits(s) == \A i \in 1..Len(s) : IsDigit(s[i])

RECURSIVE DigitsVal(_)
DigitsVal(s) ==
    IF s = <<>> THEN 0
    ELSE 10 * DigitsVal(SubSeq(s, 1, Len(s) - 1)) + DigitVal(s[Len(s)])

(* int(value) of a str: a non-empty run of digits, ValueError otherwise *)
PyInt(s) ==
    IF s # <<>> /\ AllDigits(s)
    THEN [err |-> NoErr, val |-> DigitsVal(s)]
    ELSE [err |-> "ValueError", val |-> 0]

EndsWith(s, suffix) ==
    /\ Len(s) >= Len(suffix)
    /\ SubSeq(s, Len(s) - Len(suffix) + 1, Len(s)) = suffix

StartsWith(s, prefix) ==
    /\ Len(s) >= Len(prefix)
    /\ SubSeq(s, 1, Len(prefix)) = prefix

(* the part of s after the last occurrence of the token sep, s itself     *)
(* when sep does not occur: s.split(sep)[-1] and os.path.basename          *)
RECURSIVE AfterLast(_, _)
AfterLast(s, sep) ==
    IF s = <<>> THEN <<>>
    ELSE IF s[Len(s)] = sep THEN <<>>
    ELSE Append(AfterLast(SubSeq(s, 1, Len(s) - 1), sep), s[Len(s)])

Basename(p) == AfterLast(p, "/")

(* os.path.join(a, b) for a relative b and an a without trailing slash *)
PathJoin(a, b) == IF a = <<>> THEN b ELSE a \o <<"/">> \o b

(***************************************************************************)
(* DataSize                                                                *)
(***************************************************************************)
UNITS == <<[unit |-> 1, suffix |-> <<>>],
           [unit |-> 1000, suffix |-> <<"K">>],
           [unit |-> 1000000, suffix |-> <<"M">>],
           [unit |-> 1000000000, suffix |-> <<"G">>]>>

(* DataSize._parse: the units are tried from G down to the empty suffix,   *)
(* which every string ends with, so the final raise is never reached.      *)
(* The number before a suffix is a run of digits (float() of it is exact). *)
RECURSIVE ParseFrom(_, _)
ParseFrom(val, i) ==
    IF i = 0 THEN [err |-> "RuntimeError", val |-> 0]
    ELSE IF EndsWith(val, UNITS[i].suffix)
         THEN IF UNITS[i].suffix # <<>>
              THEN LET num == PyInt(SubSeq(val, 1, Len(val) - Len(UNITS[i].suffix)))
                   IN  IF num.err # NoErr THEN num
                       ELSE [err |-> NoErr, val |-> num.val * UNITS[i].unit]
              ELSE PyInt(val)
         ELSE ParseFrom(val, i - 1)

DataSizeParse(val) == ParseFrom(val, Len(UNITS))

(* DataSize.__str__: the first unit with |val| < 500 units, two decimals.  *)
(* The text is the triple (sign, hundredths of the unit, suffix); a value  *)
(* of 500G or more falls off the loop and prints as None.                  *)
RoundDiv(n, d) ==
    LET q == n \div d
        r == n % d
    IN  IF 2 * r > d THEN q + 1
        ELSE IF 2 * r < d THEN q
        ELSE q + (q % 2)

Abs(n) == IF n < 0 THEN -n ELSE n

RECURSIVE StrFrom(_, _)
StrFrom(val, i) ==
    IF i > Len(UNITS) THEN [sign |-> "", hundredths |-> -1, suffix |-> <<"None">>]
    ELSE IF Abs(val) \div UNITS[i].unit < 500
         THEN [sign |-> IF val < 0 THEN "-" ELSE "",
               hundredths |-> IF UNITS[i].unit = 1 THEN Abs(val) * 100
                              ELSE RoundDiv(Abs(val), UNITS[i].unit \div 100),
               suffix |-> UNITS[i].suffix]
         ELSE StrFrom(val, i + 1)

DataSizeStr(val) == StrFrom(val, 1)

(***************************************************************************)
(* ArchivedFile, Block, Archive                                            *)
(* An attribute that has not been assigned yet is the empty tuple, an      *)
(* assigned one is a 1-tuple: reading an unassigned attribute raises       *)
(* AttributeError.  Results of calls are records [err, val].               *)
(***************************************************************************)
Ok(v) == [err |-> NoErr, val |-> v]

Raise(e) == [err |-> e, val |-> 0]

(* the value None of ArchivedFile._block *)
NoBlock == -1

(* ArchivedFile.__init__ *)
NewArchivedFile(path) ==
    [path |-> path, size |-> <<>>, packed_size |-> <<>>,
     attributes |-> <<>>, block |-> <<>>]

(* ArchivedFile._set_property: [err, val |-> the file after the call] *)
FileSetProperty(f, name, value) ==
    IF name = "Size"
    THEN LET r == DataSizeParse(value)
         IN  IF r.err # NoErr THEN [err |-> r.err, val |-> f]
             ELSE Ok([f EXCEPT !.size = <<r.val>>])
    ELSE IF name = "Packed Size"
    THEN IF value = <<>> THEN Ok([f EXCEPT !.packed_size = <<0>>])
         ELSE LET r == DataSizeParse(value)
              IN  IF r.err # NoErr THEN [err |-> r.err, val |-> f]
                  ELSE Ok([f EXCEPT !.packed_size = <<r.val>>])
    ELSE IF name = "Attributes" THEN Ok([f EXCEPT !.attributes = <<value>>])
    ELSE IF name = "Block"
    THEN IF value = <<>> THEN Ok([f EXCEPT !.block = <<NoBlock>>])
         ELSE LET r == PyInt(value)
              IN  IF r.err # NoErr THEN [err |-> r.err, val |-> f]
                  ELSE Ok([f EXCEPT !.block = <<r.val>>])
    ELSE Ok(f)

(* ArchivedFile.is_unsupported *)
IsUnsupported(f) ==
    IF f.attributes = <<>> THEN Raise("AttributeError")
    ELSE Ok(StartsWith(f.attributes[1], <<"D">>))

(* Archive.__init__ before _fill *)
NewArchive(path) ==
    [path |-> path, solid |-> <<>>, method |-> <<>>, blocks |-> <<>>,
     files |-> <<>>]

(* Archive._set_property *)
ArchiveSetProperty(arc, name, value) ==
    IF name = "Solid" THEN Ok([arc EXCEPT !.solid = <<value = <<"+">>>>])
    ELSE IF name = "Method" THEN Ok([arc EXCEPT !.method = <<value>>])
    ELSE IF name = "Blocks"
    THEN LET r == PyInt(value)
         IN  IF r.err # NoErr THEN [err |-> r.err, val |-> arc]
             ELSE Ok([arc EXCEPT !.blocks = <<r.val>>])
    ELSE Ok(arc)

(* index of the entry with this path in the ordered mapping, 0 if none *)
FileIndex(files, path) ==
    IF \E i \in 1..Len(files) : files[i].path = path
    THEN CHOOSE i \in 1..Len(files) : files[i].path = path
    ELSE 0

(* Archive._fill, the loop over the lines of the listing.  A line is       *)
(* [name, eq, value], the result of line.partition(' = ').  cur is 0 while *)
(* the current record is the archive, else the index of the open entry.    *)
RECURSIVE FillLines(_, _, _, _)
FillLines(lines, i, arc, cur) ==
    IF i > Len(lines) THEN Ok(arc)
    ELSE LET line == lines[i]
         IN  IF ~line.eq THEN FillLines(lines, i + 1, arc, cur)
             ELSE LET opens == line.name = "Path" /\ line.value # arc.path
                      found == FileIndex(arc.files, line.value)
                      (* Archive._add_file: dict.setdefault *)
                      arc1  == IF opens /\ found = 0
                               THEN [arc EXCEPT !.files =
                                        Append(@, NewArchivedFile(line.value))]
                               ELSE arc
                      cur1  == IF opens
                               THEN (IF found = 0 THEN Len(arc1.files) ELSE found)
                               ELSE cur
                  IN  IF cur1 = 0
                      THEN LET r == ArchiveSetProperty(arc1, line.name, line.value)
                           IN  IF r.err # NoErr THEN Raise(r.err)
                               ELSE FillLines(lines, i + 1, r.val, cur1)
                      ELSE LET r == FileSetProperty(arc1.files[cur1],
                                                    line.name, line.value)
                           IN  IF r.err # NoErr THEN Raise(r.err)
                               ELSE FillLines(lines, i + 1,
                                      [arc1 EXCEPT !.files[cur1] = r.val], cur1)

(* as KeepSupported, with nothing dropped *)
KeepAll(files) == files

(* Archive._cleanup_unsupported_files *)
RECURSIVE KeepSupported(_)
KeepSupported(files) ==
    IF files = <<>> THEN <<>>
    ELSE IF IsUnsupported(Head(files)).val THEN KeepSupported(Tail(files))
         ELSE <<Head(files)>> \o KeepSupported(Tail(files))

CleanupUnsupportedFiles(arc) ==
    IF \E i \in 1..Len(arc.files) : IsUnsupported(arc.files[i]).err # NoErr
    THEN Raise("AttributeError")
    ELSE Ok([arc EXCEPT !.files = KeepSupported(@)])

(* Archive.__init__ given the output of the listing command *)
ArchiveFromListing(path, lines) ==
    LET r == FillLines(lines, 1, NewArchive(path), 0)
    IN  IF r.err # NoErr THEN r ELSE CleanupUnsupportedFiles(r.val)

(***************************************************************************)
(* Derived quantities of an Archive                                        *)
(***************************************************************************)
RECURSIVE SumSeq(_)
SumSeq(s) == IF s = <<>> THEN 0 ELSE Head(s) + SumSeq(Tail(s))

MinSeq(s) == CHOOSE m \in {s[i] : i \in 1..Len(s)} :
                 \A i \in 1..Len(s) : m <= s[i]

MaxSeq(s) == CHOOSE m \in {s[i] : i \in 1..Len(s)} :
                 \A i \in 1..Len(s) : m >= s[i]

(* Archive._get_files_sizes *)
GetFilesSizes(arc) ==
    IF \E i \in 1..Len(arc.files) : arc.files[i].size = <<>>
    THEN Raise("AttributeError")
    ELSE Ok([i \in 1..Len(arc.files) |-> arc.files[i].size[1]])

(* Archive.get_unpacked_size *)
GetUnpackedSize(arc) ==
    LET r == GetFilesSizes(arc)
    IN  IF r.err # NoErr THEN r ELSE Ok(SumSeq(r.val))

(* Archive.get_packed_size *)
GetPackedSize(arc) ==
    IF \E i \in 1..Len(arc.files) : arc.files[i].packed_size = <<>>
    THEN Raise("AttributeError")
    ELSE Ok(SumSeq([i \in 1..Len(arc.files) |-> arc.files[i].packed_size[1]]))

(* Block.__init__ *)
NewBlock == [size |-> 0, files |-> 0]

(* Block.is_singlefile *)
IsSinglefile(block) == block.files = 1

(* as AddToBlocks, with `if f._block` in place of `is not None`: the       *)
(* entries of block 0 are passed over like those of no block               *)
RECURSIVE AddToBlocksTruthy(_, _, _)
AddToBlocksTruthy(files, i, blocks) ==
    IF i > Len(files) THEN Ok(blocks)
    ELSE LET f == files[i]
         IN  IF f.block = <<>> THEN Raise("AttributeError")
             ELSE IF f.block[1] \in {NoBlock, 0}
                  THEN AddToBlocksTruthy(files, i + 1, blocks)
             ELSE IF f.block[1] + 1 \notin 1..Len(blocks) THEN Raise("IndexError")
             ELSE IF f.packed_size = <<>> THEN Raise("AttributeError")
             ELSE AddToBlocksTruthy(files, i + 1,
                    [blocks EXCEPT ![f.block[1] + 1] =
                        [size |-> @.size + f.packed_size[1],
                         files |-> @.files + 1]])

(* Archive.get_blocks, the loop over the entries from entry i on *)
RECURSIVE AddToBlocks(_, _, _)
AddToBlocks(files, i, blocks) ==
    IF i > Len(files) THEN Ok(blocks)
    ELSE LET f == files[i]
         IN  IF f.block = <<>> THEN Raise("AttributeError")
             ELSE IF f.block[1] = NoBlock THEN AddToBlocks(files, i + 1, blocks)
             ELSE IF f.block[1] + 1 \notin 1..Len(blocks) THEN Raise("IndexError")
             ELSE IF f.packed_size = <<>> THEN Raise("AttributeError")
             ELSE AddToBlocks(files, i + 1,
                    [blocks EXCEPT ![f.block[1] + 1] =
                        (* Block.add_file *)
                        [size |-> @.size + f.packed_size[1],
                         files |-> @.files + 1]])

GetBlocks(arc) ==
    IF arc.blocks = <<>> THEN Raise("AttributeError")
    ELSE AddToBlocks(arc.files, 1, [i \in 1..arc.blocks[1] |-> NewBlock])

(* Archive.get_ratio: the quotient packed / unpacked, kept as the pair *)
GetRatio(arc) ==
    LET p == GetPackedSize(arc)
        u == GetUnpackedSize(arc)
    IN  IF p.err # NoErr THEN p
        ELSE IF u.err # NoErr THEN u
        ELSE IF u.val = 0 THEN Raise("ZeroDivisionError")
        ELSE Ok([packed |-> p.val, unpacked |-> u.val])

(* Archive._get_sizes_info: the arguments of format() are evaluated in     *)
(* order, so min() of no sizes raises before 1 / count is computed.  The   *)
(* average is int(total * (1 / count)), the floor of total / count.        *)
GetSizesInfo(type, sizes) ==
    IF sizes = <<>> THEN Raise("ValueError")
    ELSE Ok([count |-> Len(sizes), type |-> type,
             min |-> DataSizeStr(MinSeq(sizes)),
             max |-> DataSizeStr(MaxSeq(sizes)),
             avg |-> DataSizeStr(SumSeq(sizes) \div Len(sizes))])

(* Archive.get_files_types: the text after the last dot of every path *)
GetFilesTypes(arc) ==
    {AfterLast(arc.files[i].path, ".") : i \in 1..Len(arc.files)}

(* as GetFilesInfo, with the path and the size of every file in the text *)
GetFilesInfoPerFile(arc) ==
    LET sizes == GetFilesSizes(arc)
    IN  IF sizes.err # NoErr THEN sizes
        ELSE LET info == GetSizesInfo("file", sizes.val)
             IN  IF info.err # NoErr THEN info
                 ELSE Ok([sizes |-> info.val, types |-> GetFilesTypes(arc),
                          each |-> [i \in 1..Len(arc.files) |->
                                       <<arc.files[i].path, arc.files[i].size>>]])

(* Archive.get_files_info: the sizes text followed by the sorted, joined   *)
(* extensions, which is one text per set of extensions                     *)
GetFilesInfo(arc) ==
    LET sizes == GetFilesSizes(arc)
    IN  IF sizes.err # NoErr THEN sizes
        ELSE LET info == GetSizesInfo("file", sizes.val)
             IN  IF info.err # NoErr THEN info
                 ELSE Ok([sizes |-> info.val, types |-> GetFilesTypes(arc)])

(* Archive.get_info: the exception it raises, NoErr when it returns its    *)
(* text (which only goes to the report)                                    *)
GetInfoErr(arc) ==
    LET blocks == GetBlocks(arc)
        ratio  == GetRatio(arc)
    IN  IF arc.solid = <<>> THEN "AttributeError"
        ELSE IF arc.solid[1] /\ blocks.err # NoErr THEN blocks.err
        ELSE IF arc.solid[1] /\ blocks.val = <<>> THEN "ValueError"
        ELSE IF arc.method = <<>> THEN "AttributeError"
        ELSE ratio.err

(***************************************************************************)
(* RecompressLogic: the policy                                             *)
(***************************************************************************)
(* as SharedBlockSizes, with the single-file blocks left in *)
RECURSIVE AllBlockSizes(_)
AllBlockSizes(blocks) ==
    IF blocks = <<>> THEN <<>>
    ELSE <<Head(blocks).size>> \o AllBlockSizes(Tail(blocks))

(* the sizes of the blocks that are not single-file blocks *)
RECURSIVE SharedBlockSizes(_)
SharedBlockSizes(blocks) ==
    IF blocks = <<>> THEN <<>>
    ELSE IF IsSinglefile(Head(blocks)) THEN SharedBlockSizes(Tail(blocks))
         ELSE <<Head(blocks).size>> \o SharedBlockSizes(Tail(blocks))

(* as IsBigSolid, with > in place of >= *)
IsBigSolidStrict(arc, p) ==
    IF arc.solid = <<>> THEN Raise("AttributeError")
    ELSE IF ~arc.solid[1] THEN Ok(FALSE)
    ELSE LET blocks == GetBlocks(arc)
         IN  IF blocks.err # NoErr THEN blocks
             ELSE LET sizes == SharedBlockSizes(blocks.val)
                  IN  IF sizes = <<>> THEN Raise("ValueError")
                      ELSE Ok(MaxSeq(sizes) > p.max_solid_block_size)

(* RecompressLogic._is_big_solid: max() of no sizes raises ValueError *)
IsBigSolid(arc, p) ==
    IF arc.solid = <<>> THEN Raise("AttributeError")
    ELSE IF ~arc.solid[1] THEN Ok(FALSE)
    ELSE LET blocks == GetBlocks(arc)
         IN  IF blocks.err # NoErr THEN blocks
             ELSE LET sizes == SharedBlockSizes(blocks.val)
                  IN  IF sizes = <<>> THEN Raise("ValueError")
                      ELSE Ok(MaxSeq(sizes) >= p.max_solid_block_size)

(* as NeedRecompress, with every solid archive taken *)
NeedRecompressAnySolid(arc, p) ==
    IF arc.solid = <<>> THEN Raise("AttributeError") ELSE Ok(arc.solid[1])

(* RecompressLogic._need_recompress *)
NeedRecompress(arc, p) == IsBigSolid(arc, p)

(* as GetCompressionLevel, with `or` in place of `and` *)
GetCompressionLevelEither(arc, p) ==
    LET ratio == GetRatio(arc)
    IN  IF ratio.err # NoErr THEN ratio
        ELSE IF \/ ratio.val.packed * p.min_unpacked_ratio.den
                     >= p.min_unpacked_ratio.num * ratio.val.unpacked
                \/ ratio.val.packed + p.max_nonpacked_space_loss
                     >= ratio.val.unpacked
             THEN Ok(0)
             ELSE Ok(p.compression_level)

(* RecompressLogic._get_compression_level.  min_unpacked_ratio is the      *)
(* fraction num / den; packed / unpacked >= num / den is compared on the   *)
(* cross products, which agrees with the float comparison for every size   *)
(* below 2^50.                                                             *)
GetCompressionLevel(arc, p) ==
    LET ratio == GetRatio(arc)
    IN  IF ratio.err # NoErr THEN ratio
        ELSE IF /\ ratio.val.packed * p.min_unpacked_ratio.den
                     >= p.min_unpacked_ratio.num * ratio.val.unpacked
                /\ ratio.val.packed + p.max_nonpacked_space_loss
                     >= ratio.val.unpacked
             THEN Ok(0)
             ELSE Ok(p.compression_level)

(***************************************************************************)
(* The external tool: what `7zr l -slt` prints for an archive              *)
(***************************************************************************)
RECURSIVE DecimalText(_)
DecimalText(n) ==
    IF n < 10 THEN <<Digits[n + 1]>>
    ELSE DecimalText(n \div 10) \o <<Digits[(n % 10) + 1]>>

KeyValue(name, value) == [name |-> name, eq |-> TRUE, value |-> value]

OtherLine(text) == [name |-> text, eq |-> FALSE, value |-> <<>>]

(* the lines of one entry d = [path, size, packed, attributes, block] *)
EntryLines(d) ==
    <<KeyValue("Path", d.path),
      KeyValue("Size", d.size),
      KeyValue("Packed Size", d.packed),
      KeyValue("Attributes", d.attributes),
      KeyValue("Method", <<"LZMA", ":", "2", "4", ":", "lc4">>),
      KeyValue("Block", d.block),
      OtherLine("")>>

RECURSIVE EntriesLines(_)
EntriesLines(ds) ==
    IF ds = <<>> THEN <<>> ELSE EntryLines(Head(ds)) \o EntriesLines(Tail(ds))

(* the listing of the archive at path described by                         *)
(* d = [method, solid, blocks, entries]                                    *)
ListingText(path, d) ==
    <<OtherLine("--"),
      KeyValue("Path", path),
      KeyValue("Type", <<"7z">>),
      KeyValue("Method", d.method),
      KeyValue("Solid", d.solid),
      KeyValue("Blocks", d.blocks),
      OtherLine(""),
      OtherLine("----------")>> \o EntriesLines(d.entries)

(***************************************************************************)
(* Bounds and the inputs of the runs                                       *)
(***************************************************************************)
MaxFiles == 2

MaxArchives == 2

(* the name of the i-th entry of a listing *)
EntryName(i) ==
    <<"f">> \o DecimalText(i) \o <<".", IF i % 2 = 1 THEN "wav" ELSE "txt">>

(* dom = [sizes, packeds, blocks]: the texts an entry may carry *)
EntryDescs(i, dom) ==
    {[path |-> EntryName(i), size |-> s, packed |-> k,
      attributes |-> <<"A">>, block |-> b] :
        s \in dom.sizes, k \in dom.packeds, b \in dom.blocks}

(* the listings of n entries: the first from the texts first, the others   *)
(* from the texts rest                                                     *)
RECURSIVE EntrySeqs(_, _, _)
EntrySeqs(n, first, rest) ==
    IF n = 0 THEN {<<>>}
    ELSE {Append(es, e) : es \in EntrySeqs(n - 1, first, rest),
                          e \in EntryDescs(n, IF n = 1 THEN first ELSE rest)}

(* the tool lists no entry in a block the archive does not have *)
ConsistentBlocks(bc, es) ==
    \A i \in 1..Len(es) :
        es[i].block = <<>> \/ PyInt(es[i].block).val < PyInt(bc).val

ArchiveDescs(maxFiles, solids, blockCounts, first, rest) ==
    {[method |-> <<"LZMA", ":", "2", "4">>, solid |-> so, blocks |-> bc,
      entries |-> es] :
        so \in solids,
        <<bc, es>> \in
            {x \in blockCounts \X
                   UNION {EntrySeqs(n, first, rest) : n \in 0..maxFiles} :
                ConsistentBlocks(x[1], x[2])}}

(* The archives the driver meets: one block, whose packed size the tool    *)
(* lists with its first file; the first file may be empty.                 *)
OriginalDescs ==
    ArchiveDescs(MaxFiles, {<<"+">>, <<"-">>}, {<<"1">>},
                 [sizes |-> {<<"0">>, DecimalText(4100000)},
                  packeds |-> {<<>>, DecimalText(4000000)},
                  blocks |-> {<<>>, <<"0">>}],
                 [sizes |-> {DecimalText(4100000)},
                  packeds |-> {<<>>},
                  blocks |-> {<<"0">>}])

(* a listing with a value that is no number *)
MalformedDesc ==
    [method |-> <<"LZMA", ":", "2", "4">>, solid |-> <<"+">>,
     blocks |-> <<"x">>, entries |-> <<>>]

(* What the tool writes when it re-encodes the extracted files of arc:     *)
(* with -mx=0 -ms=off every file is stored in a block of its own, else the *)
(* files share one block whose packed size is listed with the first file.  *)
StoredEntries(fs) ==
    [i \in 1..Len(fs) |->
        [path |-> fs[i].path, size |-> DecimalText(fs[i].size[1]),
         packed |-> DecimalText(fs[i].size[1]), attributes |-> <<"A">>,
         block |-> DecimalText(i - 1)]]

SolidEntries(fs) ==
    [i \in 1..Len(fs) |->
        [path |-> fs[i].path, size |-> DecimalText(fs[i].size[1]),
         packed |-> IF i = 1
                    THEN DecimalText(SumSeq([j \in 1..Len(fs) |-> fs[j].size[1]]) \div 2)
                    ELSE <<>>,
         attributes |-> <<"A">>, block |-> <<"0">>]]

ReencodedDesc(fs, level) ==
    IF level = 0
    THEN [method |-> <<"Copy">>, solid |-> <<"-">>,
          blocks |-> DecimalText(Len(fs)), entries |-> StoredEntries(fs)]
    ELSE [method |-> <<"LZMA", ":", "2", "4">>, solid |-> <<"+">>,
          blocks |-> IF fs = <<>> THEN <<"0">> ELSE <<"1">>,
          entries |-> SolidEntries(fs)]

(* the same, with the last file lost on the way *)
LostFileDesc(d) ==
    [d EXCEPT !.entries = SubSeq(@, 1, Len(@) - 1)]

(* the same, with the sizes of the files given to the paths in reverse *)
SwappedSizesDesc(d) ==
    [d EXCEPT !.entries =
        [i \in 1..Len(d.entries) |->
            [d.entries[i] EXCEPT
                !.size = d.entries[Len(d.entries) + 1 - i].size]]]

ResultDescs(fs, level) ==
    LET d == ReencodedDesc(fs, level)
    IN  {d, LostFileDesc(d), SwappedSizesDesc(d), MalformedDesc}

(* exit statuses pexpect.run reports: 0, a failure, None for a child that  *)
(* was ended by a signal or closed after a timeout                         *)
StatusNone == -1

ExitStatuses == {0, 2, StatusNone}

(* the seconds a call of the tool may need: it ends at once, or it hangs   *)
(* for longer than any of the timeouts                                     *)
Durations == {1, 4000}

(* the timeout of pexpect.run when the caller passes none *)
PexpectDefaultTimeout == 30

(* pexpect.run(cmdline, withexitstatus=True, **kwargs) for a tool that     *)
(* needs `needs` seconds and then ends with status and output.  timeout is *)
(* the keyword argument, <<>> when the caller passes none.  After the      *)
(* timeout the child is closed and the exit status is None; what it had    *)
(* printed so far is not a listing.                                        *)
PexpectRun(timeout, needs, status, output) ==
    LET limit == IF timeout = <<>> THEN PexpectDefaultTimeout ELSE timeout[1]
    IN  IF needs > limit
        THEN [output |-> <<>>, status |-> StatusNone, time |-> limit]
        ELSE [output |-> output, status |-> status, time |-> needs]

(* the record of a call of the tool: l, x or a on path, and what           *)
(* pexpect.run returned after how many seconds                             *)
Ran(tool, path, run) ==
    [tool |-> tool, path |-> path, output |-> run.output,
     status |-> run.status, time |-> run.time]

(* Archive._execute *)
Execute(status, output) ==
    IF status # 0 THEN Raise("RuntimeError") ELSE Ok(output)

(* Archive(path) when the listing command ends with status and output *)
ArchiveNew(path, status, output) ==
    LET out == Execute(status, output)
    IN  IF out.err # NoErr THEN out ELSE ArchiveFromListing(path, out.val)

(***************************************************************************)
(* The run: main() drives RecompressLogic.recompress over the generator    *)
(* ArchivesCollection.from_dir                                             *)
(***************************************************************************)
VARIABLES
    params,       \* the parsed command line
    todo,         \* the paths Fs.list_files has still to yield
    pc,           \* where the run is
    arc,          \* the archive being processed, <<>> when none
    files_info,   \* _process: files_info, <<>> when none
    output_file,  \* _recompress: output_file, <<>> when none
    content,      \* _recompress: content, the scratch directory, <<>> when none
    packed,       \* _recompress: packed, the re-encoded Archive, <<>> when none
    exc,          \* the exception in flight in _recompress
    cmd,          \* the switches of the last `7zr a`, <<>> when none
    files,        \* the files on disk: path -> what the file holds
    dirs,         \* the scratch directories on disk
    total_delta,  \* recompress: total_delta
    log,          \* what has been printed, one record per archive
    ran           \* the last call of the tool, <<>> when none

vars == <<params, todo, pc, arc, files_info, output_file, content, packed,
          exc, cmd, files, dirs, total_delta, log, ran>>

TempDir == <<"t">>

CandidatePaths ==
    {<<"a", "/", "x", ".", "7z">>,
     <<"t", "/", "x", ".", "7z">>,
     <<"a", "/", "n", ".", "txt">>}

(* the orders in which Fs.list_files can yield up to MaxArchives files *)
Traversals ==
    {s \in UNION {[1..n -> CandidatePaths] : n \in 0..MaxArchives} :
        \A i, j \in 1..Len(s) : i # j => s[i] # s[j]}

(* parse_cmdline: the defaults, with and without the two flags *)
ParamSets ==
    [max_solid_block_size : {DataSizeParse(<<"3", "M">>).val},
     max_nonpacked_space_loss : {DataSizeParse(<<"2", "M">>).val},
     min_unpacked_ratio : {[num |-> 9, den |-> 10]},
     compression_level : {7},
     temp_dir : {TempDir},
     dry_run : BOOLEAN,
     keep_dry_run_result : BOOLEAN,
     timeout : {3600}]

(* what a file on disk holds *)
Original(p) == [kind |-> "original", of |-> p]

Recompressed(p) == [kind |-> "recompressed", of |-> p]

Partial(p) == [kind |-> "partial", of |-> p]

(* os.path.isfile *)
IsFile(fs, p) == p \in DOMAIN fs

(* os.remove; removals (os.remove, shutil.rmtree) are taken to succeed *)
Remove(fs, p) == [q \in DOMAIN fs \ {p} |-> fs[q]]

(* writing a file *)
Put(fs, p, c) == [q \in DOMAIN fs \cup {p} |-> IF q = p THEN c ELSE fs[q]]

(* os.replace(src, dst) *)
Replace(fs, src, dst) == Remove(Put(fs, dst, fs[src]), src)

(* Archive.extract: result_dir; the text str(hash(path)) stands as the     *)
(* path it is the hash of                                                  *)
ScratchDir(out_dir, path) == [dir |-> out_dir, hash |-> path]

(* as OutputFile, with the result written in place outside dry-run *)
OutputFileInPlace(p, source_file) ==
    IF p.dry_run THEN PathJoin(p.temp_dir, Basename(source_file))
    ELSE source_file

(* _recompress: output_file *)
OutputFile(p, source_file) ==
    IF p.dry_run THEN PathJoin(p.temp_dir, Basename(source_file))
    ELSE source_file \o <<".tmp">>

(* ArchivesCollection.from_dir: path.endswith(('.7z', '.7Z', '.7zip')) *)
IsArchiveName(path) ==
    \/ EndsWith(path, <<".", "7z">>)
    \/ EndsWith(path, <<".", "7Z">>)
    \/ EndsWith(path, <<".", "7zip">>)

Init ==
    /\ params \in ParamSets
    /\ todo \in Traversals
    /\ pc = "iter"
    /\ arc = <<>>
    /\ files_info = <<>>
    /\ output_file = <<>>
    /\ content = <<>>
    /\ packed = <<>>
    /\ exc = NoErr
    /\ cmd = <<>>
    /\ files = [p \in {todo[i] : i \in 1..Len(todo)} |-> Original(p)]
    /\ dirs = {}
    /\ total_delta = 0
    /\ log = <<>>
    /\ ran = <<>>

Printed(path, result, err, stage, delta) ==
    [path |-> path, result |-> result, err |-> err, stage |-> stage,
     delta |-> delta]

(* the locals of _process and _recompress go out of scope; arc, the loop  *)
(* variable of recompress, stays bound                                     *)
Leave ==
    /\ arc' = arc
    /\ files_info' = <<>>
    /\ output_file' = <<>>
    /\ content' = <<>>
    /\ packed' = <<>>
    /\ exc' = NoErr
    /\ cmd' = <<>>

(* An exception e leaves _process: recompress catches RuntimeError, prints *)
(* it and goes on; any other exception leaves recompress and main.         *)
Propagate(path, e, stage) ==
    /\ log' = Append(log, Printed(path, "error", e, stage, 0))
    /\ pc' = IF IsRuntimeError(e) THEN "iter" ELSE "aborted"
    /\ Leave

(***************************************************************************)
(* The steps                                                               *)
(***************************************************************************)
(* recompress: the generator is exhausted, the total is printed *)
IterDone ==
    /\ pc = "iter"
    /\ todo = <<>>
    /\ pc' = "done"
    /\ log' = Append(log, Printed(<<>>, "total", NoErr, "total", total_delta))
    /\ UNCHANGED <<params, todo, arc, files_info, output_file, content,
                   packed, exc, cmd, files, dirs, total_delta, ran>>

(* from_dir: a file that is no archive by its name is passed over *)
IterSkip ==
    /\ pc = "iter"
    /\ todo # <<>>
    /\ ~IsArchiveName(Head(todo))
    /\ todo' = Tail(todo)
    /\ UNCHANGED <<params, pc, arc, files_info, output_file, content, packed,
                   exc, cmd, files, dirs, total_delta, log, ran>>

(* from_dir: Archive(path).  A RuntimeError is printed by from_dir, which  *)
(* goes on to the next path; any other exception leaves the generator,     *)
(* the for statement of recompress and main.                               *)
IterListFrom(descs) ==
    /\ pc = "iter"
    /\ todo # <<>>
    /\ IsArchiveName(Head(todo))
    /\ LET path == Head(todo)
       IN  \E status \in ExitStatuses, needs \in Durations,
              d \in descs \cup {MalformedDesc} :
             LET run == PexpectRun(<<>>, needs, status, ListingText(path, d))
                 r   == ArchiveNew(path, run.status, run.output)
             IN  /\ run.status = 0 => IsFile(files, path)
                 /\ run.status # 0 => d = MalformedDesc
                 /\ ran' = <<Ran("l", path, run)>>
                 /\ IF r.err = NoErr
                    THEN /\ arc' = <<r.val>>
                         /\ pc' = "process"
                         /\ UNCHANGED <<files_info, output_file, content,
                                        packed, exc, cmd, log>>
                    ELSE Propagate(path, r.err, "listing")
    /\ todo' = Tail(todo)
    /\ UNCHANGED <<params, files, dirs, total_delta>>

IterList == IterListFrom(OriginalDescs)

(* _process up to the decision: the analytics are printed, the policy is   *)
(* asked; an archive that needs nothing is reported unchanged              *)
Process ==
    /\ pc = "process"
    /\ LET a    == arc[1]
           info == GetFilesInfo(a)
           need == NeedRecompress(a, params)
       IN  IF info.err # NoErr
           THEN Propagate(a.path, info.err, "analyse") /\ UNCHANGED total_delta
           ELSE IF GetInfoErr(a) # NoErr
           THEN Propagate(a.path, GetInfoErr(a), "analyse") /\ UNCHANGED total_delta
           ELSE IF need.err # NoErr
           THEN Propagate(a.path, need.err, "policy") /\ UNCHANGED total_delta
           ELSE IF need.val
           THEN /\ files_info' = <<info.val>>
                /\ output_file' = <<OutputFile(params, a.path)>>
                /\ pc' = "extract"
                /\ UNCHANGED <<arc, content, packed, exc, cmd, total_delta, log>>
           ELSE /\ log' = Append(log, Printed(a.path, "unchanged", NoErr, "policy", 0))
                /\ total_delta' = total_delta + 0
                /\ pc' = "iter"
                /\ Leave
    /\ UNCHANGED <<params, todo, files, dirs, ran>>

(* Archive.extract: os.makedirs(result_dir) *)
ExtractMakedirs ==
    /\ pc = "extract"
    /\ LET result_dir == ScratchDir(params.temp_dir, arc[1].path)
       IN  IF result_dir \in dirs
           THEN Propagate(arc[1].path, "OSError", "extract") /\ UNCHANGED dirs
           ELSE /\ dirs' = dirs \cup {result_dir}
                /\ pc' = "extracting"
                /\ UNCHANGED <<arc, files_info, output_file, content, packed,
                               exc, cmd, log>>
    /\ UNCHANGED <<params, todo, files, total_delta, ran>>

(* Archive.extract: os.makedirs fails (no room, no permission) *)
ExtractMakedirsFails ==
    /\ pc = "extract"
    /\ Propagate(arc[1].path, "OSError", "extract")
    /\ UNCHANGED <<params, todo, files, dirs, total_delta, ran>>

(* Archive.extract: `7zr x` ends; on failure the directory is removed and  *)
(* the exception goes on                                                   *)
ExtractRun ==
    /\ pc = "extracting"
    /\ LET result_dir == ScratchDir(params.temp_dir, arc[1].path)
       IN  \E status \in ExitStatuses, needs \in Durations :
             LET run == PexpectRun(<<params.timeout>>, needs, status, <<>>)
                 r   == Execute(run.status, run.output)
             IN  /\ run.status = 0 => IsFile(files, arc[1].path)
                 /\ ran' = <<Ran("x", arc[1].path, run)>>
                 /\ IF r.err = NoErr
                    THEN /\ content' = <<result_dir>>
                         /\ pc' = "prepare"
                         /\ UNCHANGED <<arc, files_info, output_file, packed,
                                        exc, cmd, dirs, log>>
                    ELSE /\ dirs' = dirs \ {result_dir}
                         /\ Propagate(arc[1].path, r.err, "extract")
    /\ UNCHANGED <<params, todo, files, total_delta>>

(* _recompress: a file in the way of the output is removed *)
RemoveOldOutput ==
    /\ pc = "prepare"
    /\ files' = IF IsFile(files, output_file[1])
                THEN Remove(files, output_file[1]) ELSE files
    /\ pc' = "compress"
    /\ UNCHANGED <<params, todo, arc, files_info, output_file, content,
                   packed, exc, cmd, dirs, total_delta, log, ran>>

(* Archive.compress: the switches *)
Switches(level, solid_block_size) ==
    [mx |-> level,
     ms |-> IF level = 0 THEN <<"off">>
            ELSE IF solid_block_size # 0
                 THEN <<"e">> \o DecimalText(solid_block_size) \o <<"b">>
                 ELSE <<"e">>,
     sdel |-> TRUE]

(* _recompress: the level is chosen and `7zr a` runs.  When it fails it    *)
(* may or may not have left a part of the output.                          *)
CompressRun ==
    /\ pc = "compress"
    /\ LET level == GetCompressionLevel(arc[1], params)
       IN  IF level.err # NoErr
           THEN /\ exc' = level.err
                /\ pc' = "except"
                /\ UNCHANGED <<cmd, files, ran>>
           ELSE /\ cmd' = <<Switches(level.val, params.max_solid_block_size)>>
                /\ \E status \in ExitStatuses, needs \in Durations,
                      leftover \in BOOLEAN :
                     LET run == PexpectRun(<<params.timeout>>, needs, status, <<>>)
                         r   == Execute(run.status, run.output)
                     IN  /\ ran' = <<Ran("a", output_file[1], run)>>
                         /\ IF r.err = NoErr
                            THEN /\ leftover
                                 /\ files' = Put(files, output_file[1],
                                                 Recompressed(arc[1].path))
                                 /\ pc' = "list_new"
                                 /\ UNCHANGED exc
                            ELSE /\ files' = IF leftover
                                             THEN Put(files, output_file[1],
                                                      Partial(arc[1].path))
                                             ELSE files
                                 /\ exc' = r.err
                                 /\ pc' = "except"
    /\ UNCHANGED <<params, todo, arc, files_info, output_file, content,
                   packed, dirs, total_delta, log>>

(* Archive.compress: return Archive(output_file) *)
CompressList ==
    /\ pc = "list_new"
    /\ \E status \in ExitStatuses, needs \in Durations,
          d \in ResultDescs(arc[1].files, cmd[1].mx) :
         LET run == PexpectRun(<<>>, needs, status,
                               ListingText(output_file[1], d))
             r   == ArchiveNew(output_file[1], run.status, run.output)
         IN  /\ run.status # 0 => d = MalformedDesc
             /\ ran' = <<Ran("l", output_file[1], run)>>
             /\ IF r.err = NoErr
                THEN /\ packed' = <<r.val>>
                     /\ pc' = "finally"
                     /\ UNCHANGED exc
                ELSE /\ exc' = r.err
                     /\ pc' = "except"
                     /\ UNCHANGED packed
    /\ UNCHANGED <<params, todo, arc, files_info, output_file, content,
                   cmd, files, dirs, total_delta, log>>

(* _recompress: except Exception *)
ExceptClause ==
    /\ pc = "except"
    /\ files' = IF IsFile(files, output_file[1])
                THEN Remove(files, output_file[1]) ELSE files
    /\ pc' = "finally"
    /\ UNCHANGED <<params, todo, arc, files_info, output_file, content,
                   packed, exc, cmd, dirs, total_delta, log, ran>>

(* as FinallyClause, without the rmtree *)
FinallyClauseKeepsScratch ==
    /\ pc = "finally"
    /\ dirs' = dirs
    /\ IF exc # NoErr
       THEN Propagate(arc[1].path, exc, "compress")
       ELSE /\ pc' = "install"
            /\ UNCHANGED <<arc, files_info, output_file, content, packed,
                           exc, cmd, log>>
    /\ UNCHANGED <<params, todo, files, total_delta, ran>>

(* _recompress: finally, after which a pending exception goes on *)
FinallyClause ==
    /\ pc = "finally"
    /\ dirs' = dirs \ {content[1]}
    /\ IF exc # NoErr
       THEN Propagate(arc[1].path, exc, "compress")
       ELSE /\ pc' = "install"
            /\ UNCHANGED <<arc, files_info, output_file, content, packed,
                           exc, cmd, log>>
    /\ UNCHANGED <<params, todo, files, total_delta, ran>>

(* _recompress: the result is moved over the source, removed or kept *)
Install ==
    /\ pc = "install"
    /\ files' = IF ~params.dry_run
                THEN Replace(files, output_file[1], arc[1].path)
                ELSE IF ~params.keep_dry_run_result
                     THEN Remove(files, output_file[1])
                     ELSE files
    /\ pc' = "verify"
    /\ UNCHANGED <<params, todo, arc, files_info, output_file, content,
                   packed, exc, cmd, dirs, total_delta, log, ran>>

(* as PackedDelta, with the difference taken the other way round *)
PackedDeltaReversed(after, before) ==
    GetPackedSize(before).val - GetPackedSize(after).val

(* _process: delta *)
PackedDelta(after, before) ==
    GetPackedSize(after).val - GetPackedSize(before).val

(* _process after _recompress: the files of the result are compared with   *)
(* the files of the source, the delta is printed and returned              *)
Verify ==
    /\ pc = "verify"
    /\ LET after       == packed[1]
           after_files == GetFilesInfo(after)
           delta       == PackedDelta(after, arc[1])
       IN  IF after_files.err # NoErr
           THEN Propagate(arc[1].path, after_files.err, "verify")
                /\ UNCHANGED total_delta
           ELSE IF files_info[1] # after_files.val
           THEN Propagate(arc[1].path, "RuntimeError", "files mismatch")
                /\ UNCHANGED total_delta
           ELSE IF GetInfoErr(after) # NoErr
           THEN Propagate(arc[1].path, GetInfoErr(after), "report")
                /\ UNCHANGED total_delta
           ELSE /\ log' = Append(log, Printed(arc[1].path, "recompressed",
                                              NoErr, "report", delta))
                /\ total_delta' = total_delta + delta
                /\ pc' = "iter"
                /\ Leave
    /\ UNCHANGED <<params, todo, files, dirs, ran>>

Next ==
    \/ IterDone
    \/ IterSkip
    \/ IterList
    \/ Process
    \/ ExtractMakedirs
    \/ ExtractMakedirsFails
    \/ ExtractRun
    \/ RemoveOldOutput
    \/ CompressRun
    \/ CompressList
    \/ ExceptClause
    \/ FinallyClause
    \/ Install
    \/ Verify

Spec == Init /\ [][Next]_vars

(***************************************************************************)
(* The calls of the tool under a short and under the default timeout: one  *)
(* archive is taken through the whole of its processing.                   *)
(***************************************************************************)
TimeoutParamSets ==
    [max_solid_block_size : {DataSizeParse(<<"3", "M">>).val},
     max_nonpacked_space_loss : {DataSizeParse(<<"2", "M">>).val},
     min_unpacked_ratio : {[num |-> 9, den |-> 10]},
     compression_level : {7},
     temp_dir : {TempDir},
     dry_run : BOOLEAN,
     keep_dry_run_result : {FALSE},
     timeout : {20, 3600}]

InitTimeout ==
    /\ params \in TimeoutParamSets
    /\ todo \in {<<p>> : p \in CandidatePaths}
    /\ pc = "iter"
    /\ arc = <<>>
    /\ files_info = <<>>
    /\ output_file = <<>>
    /\ content = <<>>
    /\ packed = <<>>
    /\ exc = NoErr
    /\ cmd = <<>>
    /\ files = [p \in {todo[i] : i \in 1..Len(todo)} |-> Original(p)]
    /\ dirs = {}
    /\ total_delta = 0
    /\ log = <<>>
    /\ ran = <<>>

SpecTimeout == InitTimeout /\ [][Next]_vars

(***************************************************************************)
(* The policy over a wider range of archives and thresholds: one archive   *)
(* is listed, analysed and, when it qualifies, taken up to `7zr a`.        *)
(***************************************************************************)
(* archives with up to MaxFiles files over up to two blocks, some of them  *)
(* declared and empty, with packed sizes around the default threshold      *)
BlockDescs ==
    LET dom == [sizes |-> {DecimalText(5000000)},
                packeds |-> {<<>>, DecimalText(2999999), DecimalText(3000000),
                             DecimalText(4000000)},
                blocks |-> {<<>>, <<"0">>, <<"1">>}]
    IN  ArchiveDescs(MaxFiles, {<<"+">>, <<"-">>}, {<<"0">>, <<"1">>, <<"2">>},
                     dom, dom)

(* two files in one block, with totals around the default ratio and slack *)
LevelDescs ==
    {[method |-> <<"LZMA", ":", "2", "4">>, solid |-> <<"+">>,
      blocks |-> <<"1">>,
      entries |-> <<[path |-> EntryName(1), size |-> DecimalText(25000000),
                     packed |-> k, attributes |-> <<"A">>, block |-> <<"0">>],
                    [path |-> EntryName(2), size |-> s,
                     packed |-> <<>>, attributes |-> <<"A">>, block |-> <<"0">>]>>] :
        k \in {DecimalText(48000000), DecimalText(45000000)},
        s \in {DecimalText(25000000), DecimalText(28000000)}}

PolicyDescs == BlockDescs \cup LevelDescs

PolicyParamSets ==
    [max_solid_block_size :
        {DataSizeParse(<<"0">>).val, DataSizeParse(<<"3", "M">>).val,
         DataSizeParse(<<"5", "M">>).val},
     max_nonpacked_space_loss :
        {DataSizeParse(<<"2", "M">>).val, DataSizeParse(<<"5", "M">>).val},
     min_unpacked_ratio : {[num |-> 9, den |-> 10], [num |-> 19, den |-> 20]},
     compression_level : {0, 7},
     temp_dir : {TempDir},
     dry_run : {FALSE},
     keep_dry_run_result : {FALSE},
     timeout : {3600}]

InitPolicy ==
    /\ params \in PolicyParamSets
    /\ todo = <<<<"a", "/", "x", ".", "7z">>>>
    /\ pc = "iter"
    /\ arc = <<>>
    /\ files_info = <<>>
    /\ output_file = <<>>
    /\ content = <<>>
    /\ packed = <<>>
    /\ exc = NoErr
    /\ cmd = <<>>
    /\ files = [p \in {todo[i] : i \in 1..Len(todo)} |-> Original(p)]
    /\ dirs = {}
    /\ total_delta = 0
    /\ log = <<>>
    /\ ran = <<>>

PolicyList == IterListFrom(PolicyDescs)

NextPolicy ==
    \/ PolicyList
    \/ Process
    \/ ExtractMakedirs
    \/ ExtractRun
    \/ RemoveOldOutput
    \/ CompressRun

SpecPolicy == InitPolicy /\ [][NextPolicy]_vars

(***************************************************************************)
(* The listing parser over a wider range of listings: one archive is       *)
(* listed and analysed.  An entry is a file or a directory, and stands     *)
(* under a name of its own or under the very path of the archive.          *)
(***************************************************************************)
ParsePath == <<"a", "/", "x", ".", "7z">>

ParseEntryDescs(i) ==
    {[path |-> p, size |-> DecimalText(i), packed |-> k,
      attributes |-> at, block |-> b] :
        p \in {EntryName(i), ParsePath}, k \in {<<>>, <<"7">>},
        at \in {<<"A">>, <<"D">>}, b \in {<<>>, <<"0">>}}

RECURSIVE ParseEntrySeqs(_)
ParseEntrySeqs(n) ==
    IF n = 0 THEN {<<>>}
    ELSE {Append(es, e) : es \in ParseEntrySeqs(n - 1), e \in ParseEntryDescs(n)}

(* the tool lists every path of an archive once *)
ParseDescs ==
    {[method |-> <<"LZMA", ":", "2", "4">>, solid |-> <<"+">>,
      blocks |-> <<"1">>, entries |-> es] :
        es \in {x \in UNION {ParseEntrySeqs(n) : n \in 0..MaxFiles} :
                   \A i, j \in 1..Len(x) : i # j => x[i].path # x[j].path}}

InitParse ==
    /\ params \in ParamSets
    /\ todo = <<ParsePath>>
    /\ pc = "iter"
    /\ arc = <<>>
    /\ files_info = <<>>
    /\ output_file = <<>>
    /\ content = <<>>
    /\ packed = <<>>
    /\ exc = NoErr
    /\ cmd = <<>>
    /\ files = [p \in {todo[i] : i \in 1..Len(todo)} |-> Original(p)]
    /\ dirs = {}
    /\ total_delta = 0
    /\ log = <<>>
    /\ ran = <<>>

ParseList == IterListFrom(ParseDescs)

NextParse ==
    \/ ParseList
    \/ Process

SpecParse == InitParse /\ [][NextParse]_vars

(***************************************************************************)
(* Vocabulary of the properties                                            *)
(***************************************************************************)
Last == log[Len(log)]

(* the lines printed for the archive at path *)
ReportsOf(path) == {log[i] : i \in {j \in 1..Len(log) : log[j].path = path}}

(* the run is between two archives, or over *)
Between == pc \in {"iter", "done", "aborted"}

(* _recompress is at work on arc *)
Recompressing ==
    pc \in {"extract", "extracting", "prepare", "compress", "list_new",
            "except", "finally", "install", "verify"}

(* the scratch directory of arc is in use *)
ScratchInUse ==
    pc \in {"extracting", "prepare", "compress", "list_new", "except", "finally"}

(* the policy has sent arc to re-encoding *)
Qualified ==
    /\ arc # <<>>
    /\ \/ Recompressing
       \/ \E e \in ReportsOf(arc[1].path) :
            e.stage \in {"extract", "compress", "verify", "files mismatch", "report"}

(* the policy was asked about arc and has not sent it to re-encoding *)
NotQualified ==
    /\ arc # <<>>
    /\ \E e \in ReportsOf(arc[1].path) : e.stage = "policy"

(* the entries of a listed in block b, and the sum of their packed sizes *)
BlockMembers(a, b) == {i \in 1..Len(a.files) : a.files[i].block = <<b>>}

BlockPacked(a, b) ==
    SumSeq([i \in 1..Len(a.files) |->
               IF i \in BlockMembers(a, b) THEN a.files[i].packed_size[1] ELSE 0])

BlockIndexes(a) == 0..(a.blocks[1] - 1)

TotalPacked(a) == SumSeq([i \in 1..Len(a.files) |-> a.files[i].packed_size[1]])

TotalUnpacked(a) == SumSeq([i \in 1..Len(a.files) |-> a.files[i].size[1]])

(* A listing as the tool prints it: the archive-level section, the line of *)
(* dashes, then one record per entry, each opened by its Path line.        *)
HasSeparator(lines) == \E i \in 1..Len(lines) : lines[i] = OtherLine("----------")

Separator(lines) == CHOOSE i \in 1..Len(lines) : lines[i] = OtherLine("----------")

(* the Path lines of the entries *)
FilePathLines(lines) ==
    {i \in 1..Len(lines) :
        i > Separator(lines) /\ lines[i].eq /\ lines[i].name = "Path"}

(* the lines of the record opened by line i *)
RecordLines(lines, i) ==
    {j \in (i + 1)..Len(lines) :
        \A k \in FilePathLines(lines) : k > i => j < k}

(* the value the record opened by line i gives for key: <<>> when it gives *)
(* none, else the 1-tuple of the value                                     *)
ListedValue(lines, i, key) ==
    LET js == {j \in RecordLines(lines, i) : lines[j].eq /\ lines[j].name = key}
    IN  IF js = {} THEN <<>>
        ELSE <<lines[CHOOSE j \in js : \A k \in js : k <= j].value>>

(* the value the archive-level section gives for key *)
HeaderValue(lines, key) ==
    LET js == {j \in 1..Separator(lines) : lines[j].eq /\ lines[j].name = key}
    IN  IF js = {} THEN <<>>
        ELSE <<lines[CHOOSE j \in js : \A k \in js : k <= j].value>>

(* the entry listed by line i is a directory *)
ListedAsDirectory(lines, i) ==
    LET at == ListedValue(lines, i, "Attributes")
    IN  at # <<>> /\ StartsWith(at[1], <<"D">>)

(* the last call of the tool was a listing that ended well *)
Listed == ran # <<>> /\ ran[1].tool = "l" /\ ran[1].status = 0

(* the analytics of a are printed without an exception *)
AnalyticsPrinted(a) == GetFilesInfo(a).err = NoErr /\ GetInfoErr(a) = NoErr

(***************************************************************************)
(* C1: in non-dry-run mode an archive whose re-encoding ended in a files   *)
(* mismatch still has its original file, unchanged, at its path.           *)
(***************************************************************************)
C1_OriginalUnchangedOnMismatch ==
    \A i \in 1..Len(log) :
        (log[i].stage = "files mismatch" /\ ~params.dry_run)
            => /\ IsFile(files, log[i].path)
               /\ files[log[i].path] = Original(log[i].path)

(***************************************************************************)
(* C2: an error of any kind met for one candidate is caught by the driver: *)
(* the run is never left before the candidates are exhausted and the total *)
(* is printed.                                                             *)
(***************************************************************************)
C2_ErrorsNeverAbortBatch ==
    /\ pc # "aborted"
    /\ pc = "done" => (todo = <<>> /\ Last.result = "total")

(***************************************************************************)
(* C3: a solid archive whose every block holds exactly one file is         *)
(* reported unchanged, without an error, whatever the block sizes and the  *)
(* threshold.                                                              *)
(***************************************************************************)
AllSingletonSolid(a) ==
    /\ a.solid = <<TRUE>>
    /\ a.blocks # <<>>
    /\ \A b \in BlockIndexes(a) : Cardinality(BlockMembers(a, b)) = 1

C3_AllSingletonsReportedUnchanged ==
    (/\ arc # <<>>
     /\ pc # "process"
     /\ AllSingletonSolid(arc[1])
     /\ AnalyticsPrinted(arc[1]))
        => \E e \in ReportsOf(arc[1].path) :
              e.result = "unchanged" /\ e.err = NoErr

(***************************************************************************)
(* C4: outside the try block of _recompress no scratch directory exists    *)
(* (so none is left by a failed extract, a failed compress or a success),  *)
(* and once an archive has been left no part of an output file exists: the *)
(* output path of an archive whose compress stage failed holds no file.    *)
(***************************************************************************)
C4_NoScratchNoPartialOutputLeft ==
    /\ ~ScratchInUse => dirs = {}
    /\ Between => \A p \in DOMAIN files : files[p].kind # "partial"
    /\ (Between /\ Len(log) > 0 /\ Last.stage = "compress")
          => ~IsFile(files, OutputFile(params, Last.path))

C4_Witness ==
    /\ pc = "iter"
    /\ dirs = {}
    /\ \E i, j \in 1..Len(log) :
          /\ log[i].stage = "extract" /\ log[i].err = "RuntimeError"
          /\ log[j].stage = "compress"

(***************************************************************************)
(* C5: after a files mismatch the re-encoded archive is on disk neither at *)
(* the output path nor at the path of the original, in every mode.         *)
(***************************************************************************)
C5_NewArchiveRemovedOnMismatch ==
    (Between /\ Len(log) > 0 /\ Last.stage = "files mismatch")
        => /\ ~IsFile(files, OutputFile(params, Last.path))
           /\ ~(/\ IsFile(files, Last.path)
                /\ files[Last.path].kind = "recompressed")

(***************************************************************************)
(* C6: the policy sends an archive to re-encoding if and only if the       *)
(* archive is solid and some block that is not a single-file block has a   *)
(* summed packed size of at least max_solid_block_size.                    *)
(***************************************************************************)
HasBigSharedBlock(a, threshold) ==
    /\ a.solid = <<TRUE>>
    /\ \E b \in BlockIndexes(a) :
          /\ Cardinality(BlockMembers(a, b)) # 1
          /\ BlockPacked(a, b) >= threshold

C6_QualifiesIffBigSharedBlock ==
    /\ Qualified => HasBigSharedBlock(arc[1], params.max_solid_block_size)
    /\ NotQualified => ~HasBigSharedBlock(arc[1], params.max_solid_block_size)

C6_Witness ==
    /\ Qualified
    /\ arc[1].blocks[1] = 2
    /\ \E b \in BlockIndexes(arc[1]) : Cardinality(BlockMembers(arc[1], b)) = 1

(***************************************************************************)
(* C7 as stated: with max_solid_block_size = 3,000,000 a solid archive     *)
(* with a shared block of 4,000,000 qualifies, and a solid archive whose   *)
(* blocks are all of 3,000,000 or less does not.                           *)
(***************************************************************************)
HasSharedBlockOf(a, size) ==
    /\ a.solid = <<TRUE>>
    /\ \E b \in BlockIndexes(a) :
          /\ Cardinality(BlockMembers(a, b)) # 1
          /\ BlockPacked(a, b) = size

C7_Stated ==
    (arc # <<>> /\ params.max_solid_block_size = 3000000
       /\ (Qualified \/ NotQualified))
        => /\ HasSharedBlockOf(arc[1], 4000000) => Qualified
           /\ (/\ arc[1].solid = <<TRUE>>
               /\ \A b \in BlockIndexes(arc[1]) : BlockPacked(arc[1], b) <= 3000000)
                 => ~Qualified

(***************************************************************************)
(* C7 amended: with max_solid_block_size = 3,000,000 a solid archive with  *)
(* a shared block of 4,000,000 qualifies, so does one with a shared block  *)
(* of exactly 3,000,000, and a solid archive whose blocks are all below    *)
(* 3,000,000 is not sent to re-encoding.                                   *)
(***************************************************************************)
C7_BelowThresholdNotQualified ==
    (arc # <<>> /\ params.max_solid_block_size = 3000000
       /\ (Qualified \/ NotQualified))
        => /\ HasSharedBlockOf(arc[1], 4000000) => Qualified
           /\ HasSharedBlockOf(arc[1], 3000000) => Qualified
           /\ (/\ arc[1].solid = <<TRUE>>
               /\ \A b \in BlockIndexes(arc[1]) : BlockPacked(arc[1], b) < 3000000)
                 => ~Qualified

C7_Witness ==
    /\ Qualified
    /\ params.max_solid_block_size = 3000000
    /\ HasSharedBlockOf(arc[1], 3000000)
    /\ ~HasSharedBlockOf(arc[1], 4000000)

(***************************************************************************)
(* C8 as stated: the level given to `7zr a` is 0 if and only if the ratio  *)
(* is at least min_unpacked_ratio and packed + max_nonpacked_space_loss is *)
(* at least unpacked; otherwise it is the configured level.                *)
(***************************************************************************)
PrefersStored(a, p) ==
    /\ TotalPacked(a) * p.min_unpacked_ratio.den
          >= p.min_unpacked_ratio.num * TotalUnpacked(a)
    /\ TotalPacked(a) + p.max_nonpacked_space_loss >= TotalUnpacked(a)

C8_Stated ==
    cmd # <<>>
        => /\ cmd[1].mx = 0 <=> PrefersStored(arc[1], params)
           /\ ~PrefersStored(arc[1], params) => cmd[1].mx = params.compression_level

(***************************************************************************)
(* C8 amended: the level given to `7zr a` is 0 when the ratio is at least  *)
(* min_unpacked_ratio and packed + max_nonpacked_space_loss is at least    *)
(* unpacked, and the configured level in every other case; it is 0 exactly *)
(* when both conditions hold or the configured level is itself 0.          *)
(***************************************************************************)
C8_LevelChosen ==
    cmd # <<>>
        => /\ PrefersStored(arc[1], params) => cmd[1].mx = 0
           /\ ~PrefersStored(arc[1], params) => cmd[1].mx = params.compression_level
           /\ cmd[1].mx = 0 <=> (PrefersStored(arc[1], params)
                                   \/ params.compression_level = 0)

C8_Witness ==
    /\ cmd # <<>>
    /\ cmd[1].mx = 0
    /\ params.compression_level = 7
    /\ params.min_unpacked_ratio = [num |-> 9, den |-> 10]
    /\ params.max_nonpacked_space_loss = 2000000
    /\ TotalPacked(arc[1]) = 48000000
    /\ TotalUnpacked(arc[1]) = 50000000

(***************************************************************************)
(* C9: an archive whose unpacked sizes sum to zero, or that has no file,   *)
(* is reported unchanged and raises no error.                              *)
(***************************************************************************)
ZeroUnpacked(a) ==
    /\ \A i \in 1..Len(a.files) : a.files[i].size # <<>>
    /\ TotalUnpacked(a) = 0

C9_ZeroUnpackedReportedUnchanged ==
    (arc # <<>> /\ pc # "process" /\ ZeroUnpacked(arc[1]))
        => \E e \in ReportsOf(arc[1].path) :
              e.result = "unchanged" /\ e.err = NoErr

(***************************************************************************)
(* C10: after a successful recompression the new file is at the path of    *)
(* the original and not at the output path (non-dry-run), or is removed    *)
(* with the original in place (dry-run), or is kept at the output path     *)
(* with the original in place (dry-run with keep-result).                  *)
(***************************************************************************)
C10_ResultInstalledOrDiscarded ==
    (Between /\ Len(log) > 0 /\ Last.result = "recompressed")
        => LET src == Last.path
               out == OutputFile(params, src)
           IN  IF ~params.dry_run
               THEN /\ IsFile(files, src)
                    /\ files[src] = Recompressed(src)
                    /\ ~IsFile(files, out)
               ELSE IF ~params.keep_dry_run_result
               THEN /\ ~IsFile(files, out)
                    /\ IsFile(files, src)
                    /\ files[src] = Original(src)
               ELSE /\ IsFile(files, out)
                    /\ files[out] = Recompressed(src)
                    /\ IsFile(files, src)
                    /\ files[src] = Original(src)

(***************************************************************************)
(* C11: the delta printed and returned for a recompressed archive is the   *)
(* total packed size of the new archive minus that of the old one (it may  *)
(* be positive), an unchanged archive contributes zero, a failed one       *)
(* nothing, and the running total, which is the total printed at the end,  *)
(* is the sum of the deltas of exactly the archives processed without      *)
(* error.                                                                  *)
(***************************************************************************)
(* the sum of the packed sizes a listing gives *)
ListedPacked(lines) ==
    SumSeq([i \in 1..Len(lines) |->
               IF lines[i].eq /\ lines[i].name = "Packed Size"
                              /\ lines[i].value # <<>>
               THEN DigitsVal(lines[i].value) ELSE 0])

(* the deltas of the archives processed without error so far *)
SucceededDeltas ==
    SumSeq([i \in 1..Len(log) |->
               IF log[i].result \in {"recompressed", "unchanged"}
               THEN log[i].delta ELSE 0])

C11_DeltaIsNewMinusOldAndTotalIsSum ==
    /\ (pc = "iter" /\ Len(log) > 0 /\ Last.result = "recompressed")
          => Last.delta = ListedPacked(ran[1].output) - TotalPacked(arc[1])
    /\ \A i \in 1..Len(log) : log[i].result = "unchanged" => log[i].delta = 0
    /\ pc # "done" => total_delta = SucceededDeltas
    /\ pc = "done" => /\ Last.result = "total"
                      /\ Last.delta = total_delta
                      /\ Last.delta = SucceededDeltas

C11_Witness ==
    /\ pc = "done"
    /\ Last.delta > 0
    /\ \E i, j \in 1..Len(log) :
          /\ log[i].result = "recompressed" /\ log[i].delta = Last.delta
          /\ log[j].result = "error" /\ log[j].stage = "files mismatch"

(***************************************************************************)
(* C12: every call of the tool made for an archive (listing it, extracting *)
(* it, compressing the scratch directory, listing the result) blocks for   *)
(* at most the configured timeout, and a call that ran into the timeout    *)
(* fails its stage with the cleanup of any other failure: the archive is   *)
(* reported as failed, no scratch directory and no output file is left.    *)
(***************************************************************************)
C12_ToolCallsBoundedByTimeout ==
    ran # <<>> =>
        /\ ran[1].time <= params.timeout
        /\ (ran[1].status = StatusNone /\ pc \in {"iter", "aborted"})
              => /\ Last.result = "error"
                 /\ dirs = {}
                 /\ Last.stage = "compress"
                       => ~IsFile(files, OutputFile(params, Last.path))

(***************************************************************************)
(* C13: from a listing with Path lines for N distinct files, none of them  *)
(* a directory and one of them with an empty Packed Size, an Archive with  *)
(* exactly N entries is constructed, in which the entry with the empty     *)
(* Packed Size has packed size 0, whatever the paths of the files are, the *)
(* path of the archive itself included.                                    *)
(***************************************************************************)
C13_EveryListedFileHasItsEntry ==
    LET out == ran[1].output
    IN  (/\ Listed
         /\ HasSeparator(out)
         /\ \A i \in FilePathLines(out) : ~ListedAsDirectory(out, i)
         /\ \A i, j \in FilePathLines(out) :
               i # j => out[i].value # out[j].value
         /\ \E i \in FilePathLines(out) :
               ListedValue(out, i, "Packed Size") = << <<>> >>)
          => /\ arc # <<>>
             /\ Len(arc[1].files) = Cardinality(FilePathLines(out))
             /\ \A i \in FilePathLines(out) :
                   ListedValue(out, i, "Packed Size") = << <<>> >>
                     => \E k \in 1..Len(arc[1].files) :
                          /\ arc[1].files[k].path = out[i].value
                          /\ arc[1].files[k].packed_size = <<0>>

(***************************************************************************)
(* C14: get_blocks() returns as many slots as the archive declares blocks, *)
(* whether or not a slot receives anything; slot i holds the sum of the    *)
(* packed sizes, and the number, of exactly the entries of block i; the    *)
(* entries of no block are in no slot.                                     *)
(***************************************************************************)
C14_BlocksAreSlotSums ==
    arc # <<>>
        => LET a == arc[1]
               blocks == GetBlocks(a)
           IN  /\ blocks.err = NoErr
               /\ Len(blocks.val) = a.blocks[1]
               /\ \A b \in BlockIndexes(a) :
                     /\ blocks.val[b + 1].size = BlockPacked(a, b)
                     /\ blocks.val[b + 1].files = Cardinality(BlockMembers(a, b))
               /\ SumSeq([i \in 1..Len(blocks.val) |-> blocks.val[i].size])
                     = SumSeq([i \in 1..Len(a.files) |->
                                  IF a.files[i].block = <<NoBlock>> THEN 0
                                  ELSE a.files[i].packed_size[1]])

C14_Witness ==
    /\ arc # <<>>
    /\ pc # "process"
    /\ arc[1].blocks = <<2>>
    /\ BlockMembers(arc[1], 0) # {}
    /\ BlockMembers(arc[1], 1) = {}
    /\ \E i \in 1..Len(arc[1].files) :
          /\ arc[1].files[i].block = <<NoBlock>>
          /\ arc[1].files[i].packed_size[1] > 0

(***************************************************************************)
(* C15: an Archive constructed from a listing has no entry whose           *)
(* attributes begin with D: its entries are the entries the parser filled  *)
(* in less the directories, in their order, so the sizes, the block sums,  *)
(* the extensions and the files summary are those of the entries that are  *)
(* no directories.                                                         *)
(***************************************************************************)
(* the entries as _fill leaves them, before the cleanup *)
Filled == FillLines(ran[1].output, 1, NewArchive(ran[1].path), 0).val.files

IsDirectory(f) == StartsWith(f.attributes[1], <<"D">>)

(* the sum of what of(f) is over the entries of fs that are no directories *)
SumOverFiles(fs, of(_)) ==
    SumSeq([k \in 1..Len(fs) |-> IF IsDirectory(fs[k]) THEN 0 ELSE of(fs[k])])

C15_NoDirectoryEntryAfterConstruction ==
    (Listed /\ arc # <<>>)
        => LET a == arc[1]
               kept == {k \in 1..Len(Filled) : ~IsDirectory(Filled[k])}
               UnpackedOf(f) == f.size[1]
               PackedOf(f) == f.packed_size[1]
               InBlock0(f) == IF f.block = <<0>> THEN f.packed_size[1] ELSE 0
           IN  /\ \A k \in 1..Len(a.files) : ~IsDirectory(a.files[k])
               /\ Len(a.files) = Cardinality(kept)
               /\ \A k \in kept :
                     a.files[Cardinality({j \in kept : j <= k})] = Filled[k]
               /\ GetUnpackedSize(a).val = SumOverFiles(Filled, UnpackedOf)
               /\ GetPackedSize(a).val = SumOverFiles(Filled, PackedOf)
               /\ GetBlocks(a).val[1].size = SumOverFiles(Filled, InBlock0)
               /\ GetFilesTypes(a) = {AfterLast(Filled[k].path, ".") : k \in kept}
               /\ kept # {} => GetFilesInfo(a).val.sizes.count = Cardinality(kept)

C15_Witness ==
    /\ Listed
    /\ arc # <<>>
    /\ pc # "process"
    /\ Len(arc[1].files) = 1
    /\ \E i, j \in FilePathLines(ran[1].output) :
          /\ ListedAsDirectory(ran[1].output, i)
          /\ ~ListedAsDirectory(ran[1].output, j)
          /\ \A k \in {i, j} : ran[1].output[k].value # ParsePath

(***************************************************************************)
(* C16: the method, the solid flag and the block count of an Archive are   *)
(* those the archive-level section of its listing gives (the lines before  *)
(* the first Path line of a file): no line of the records of the files,    *)
(* such as the Method line of a file, changes them.                        *)
(***************************************************************************)
C16_FileLinesLeaveArchiveAttributes ==
    (Listed /\ arc # <<>> /\ HasSeparator(ran[1].output))
        => LET out == ran[1].output
           IN  /\ arc[1].method = HeaderValue(out, "Method")
               /\ arc[1].solid = <<HeaderValue(out, "Solid") = << <<"+">> >> >>
               /\ arc[1].blocks = <<DigitsVal(HeaderValue(out, "Blocks")[1])>>

(***************************************************************************)
(* C17: verification compares the aggregates of the files summary only.    *)
(* Whenever the re-encoded archive agrees with the source in the number of *)
(* files, the least, the greatest and the mean unpacked size and the set   *)
(* of extensions, verification passes and, in non-dry-run mode, the        *)
(* re-encoded archive has replaced the original; the witness is such a     *)
(* pair whose files differ: the sizes are given to other paths.            *)
(***************************************************************************)
(* the archive the last listing describes *)
ListedArchive == ArchiveFromListing(ran[1].path, ran[1].output)

UnpackedSizes(a) == [i \in 1..Len(a.files) |-> a.files[i].size[1]]

SameAggregates(a, b) ==
    /\ Len(a.files) = Len(b.files)
    /\ MinSeq(UnpackedSizes(a)) = MinSeq(UnpackedSizes(b))
    /\ MaxSeq(UnpackedSizes(a)) = MaxSeq(UnpackedSizes(b))
    /\ SumSeq(UnpackedSizes(a)) \div Len(a.files)
          = SumSeq(UnpackedSizes(b)) \div Len(b.files)
    /\ {AfterLast(a.files[i].path, ".") : i \in 1..Len(a.files)}
          = {AfterLast(b.files[i].path, ".") : i \in 1..Len(b.files)}

(* the path and the size of every file *)
FileSet(a) == {<<a.files[i].path, a.files[i].size[1]>> : i \in 1..Len(a.files)}

(* arc has been through verification against the archive last listed *)
Verified ==
    /\ pc \in {"iter", "aborted"}
    /\ Len(log) > 0
    /\ arc # <<>>
    /\ Last.path = arc[1].path
    /\ Last.stage \in {"verify", "files mismatch", "report"}
    /\ Listed
    /\ ListedArchive.err = NoErr

C17_SameAggregatesPassVerification ==
    (Verified /\ SameAggregates(arc[1], ListedArchive.val))
        => /\ Last.stage = "report"
           /\ ~params.dry_run
                 => /\ IsFile(files, arc[1].path)
                    /\ files[arc[1].path] = Recompressed(arc[1].path)

C17_Witness ==
    /\ Verified
    /\ SameAggregates(arc[1], ListedArchive.val)
    /\ FileSet(arc[1]) # FileSet(ListedArchive.val)
    /\ Last.result = "recompressed"
    /\ ~params.dry_run
    /\ files[arc[1].path] = Recompressed(arc[1].path)

(***************************************************************************)
(* C18: in dry-run mode the file of the archive being processed stays at   *)
(* its path as it was, in every state, wherever the archive and the        *)
(* working directory lie: also when the archive lies in the working        *)
(* directory, so that the output path of the dry run is its own path.      *)
(***************************************************************************)
C18_DryRunKeepsOriginal ==
    (params.dry_run /\ arc # <<>>)
        => /\ IsFile(files, arc[1].path)
           /\ files[arc[1].path] = Original(arc[1].path)

(***************************************************************************)
(* C19: in non-dry-run mode the path of every archive of the collection    *)
(* holds a complete archive in every state, also after a failed extract or *)
(* compress: the original, or the re-encoded archive once it is installed. *)
(* What `7zr a` writes, in part or in full, is at the path with .tmp       *)
(* appended and nowhere else, and comes to the path of the original by the *)
(* one replace, which leaves nothing at the .tmp path.                     *)
(***************************************************************************)
(* the paths of the archives met so far and of the files still to come *)
CollectionPaths ==
    {todo[i] : i \in 1..Len(todo)}
        \cup {log[i].path : i \in {j \in 1..Len(log) : log[j].result # "total"}}
        \cup (IF arc = <<>> THEN {} ELSE {arc[1].path})

C19_OriginalPathAlwaysComplete ==
    ~params.dry_run
        => /\ \A p \in CollectionPaths :
                 /\ IsFile(files, p)
                 /\ files[p] \in {Original(p), Recompressed(p)}
                 /\ files[p] = Recompressed(p)
                       => /\ ~IsFile(files, p \o <<".tmp">>)
                          /\ ~(Recompressing /\ arc[1].path = p /\ pc # "verify")
           /\ \A q \in DOMAIN files :
                 (files[q].kind = "partial"
                    \/ (files[q].kind = "recompressed" /\ files[q].of # q))
                   => /\ q = files[q].of \o <<".tmp">>
                      /\ Recompressing
                      /\ arc[1].path = files[q].of

C19_Witness ==
    /\ ~params.dry_run
    /\ pc = "except"
    /\ IsFile(files, output_file[1])
    /\ files[output_file[1]] = Partial(arc[1].path)
    /\ files[arc[1].path] = Original(arc[1].path)

(***************************************************************************)
(* C20: the step that decides about an archive that does not qualify (not  *)
(* solid, or without a non-single-file block of at least the threshold)    *)
(* performs no extract, compress, replace or remove: the archive is not    *)
(* sent to re-encoding, every file and the working directory are left as   *)
(* they were, and the total is left as it was, the archive being reported  *)
(* unchanged with a delta of zero.                                         *)
(***************************************************************************)
(* the decision about a is "does not qualify": a is not solid, or it has   *)
(* blocks that are no single-file blocks and all of them are below the     *)
(* threshold                                                               *)
DecidedNot(a, threshold) ==
    \/ a.solid = <<FALSE>>
    \/ /\ a.solid = <<TRUE>>
       /\ \E b \in BlockIndexes(a) : Cardinality(BlockMembers(a, b)) # 1
       /\ \A b \in BlockIndexes(a) :
             Cardinality(BlockMembers(a, b)) # 1 => BlockPacked(a, b) < threshold

C20_NotQualifiedTouchesNothing ==
    [][(pc = "process"
          /\ ~HasBigSharedBlock(arc[1], params.max_solid_block_size))
         => /\ pc' \in {"iter", "aborted"}
            /\ files' = files
            /\ dirs' = dirs
            /\ cmd' = <<>>
            /\ ran' = ran
            /\ total_delta' = total_delta
            /\ log'[Len(log')].path = arc[1].path
            /\ log'[Len(log')].delta = 0
            /\ (/\ AnalyticsPrinted(arc[1])
                /\ DecidedNot(arc[1], params.max_solid_block_size))
                  => /\ log'[Len(log')].result = "unchanged"
                     /\ pc' = "iter"]_vars

C20_Witness ==
    /\ pc = "iter"
    /\ Len(log) > 1
    /\ Last.result = "unchanged"
    /\ total_delta > 0
    /\ \E p \in DOMAIN files : files[p].kind = "recompressed"

====
